---- MODULE Spec2Model ----
(***************************************************************************)
(* Model of the weblook capture pipeline (src/src/capture.rs):             *)
(*   - ChromeDriverManager: new / is_running / start / Drop                *)
(*   - perform_capture and the steps it calls, as a sequential program     *)
(*     whose position is pc                                                *)
(* Two specifications share the variables:                                 *)
(*   Spec     one run of perform_capture on a request drawn in Init        *)
(*   SpecSup  a caller that owns one ChromeDriverManager and calls its     *)
(*            public start() several times before the value is dropped     *)
(* Times are in milliseconds.                                              *)
(***************************************************************************)
EXTENDS Integers, Sequences, FiniteSets, TLC

\* ------------------------------------------------------------------ bounds
MaxRecordingLength == 2
MaxStarts == 3
MaxSizeLen == 4
MaxServerStarts == 2
MaxCalls == 2
MaxPixels == 2

\* ------------------------------------------------------- program constants
frames_per_second == 10
DefaultRecordingLength == 10
StartTimeoutMs == 5000
PollIntervalMs == 100
GifFrameDelay == 10
ScriptGraceMs == 500
CountdownTickMs == 1000
McpClientTimeoutSecs == 60
DefaultClientTimeoutSecs == 30
SlowActionSecs == 3

\* The clock read by start_time.elapsed() advances by at least the sleep of
\* one poll; a poll may take up to one more interval (connect attempt,
\* scheduler).  Readings beyond ElapsedCap are indistinguishable to the code.
PollAdvance == {PollIntervalMs, 2 * PollIntervalMs}
ElapsedCap == StartTimeoutMs + 3 * PollIntervalMs

Min(a, b) == IF a < b THEN a ELSE b

\* ------------------------------------------------ Option<T> as a sequence
None == <<>>
Some(x) == <<x>>
unwrap_or(o, d) == IF o = None THEN d ELSE o[1]

\* --------------------------------------------- ViewportSize::from_str
Digits == {"0", "1", "2", "3", "4", "5", "6", "7", "8", "9"}

DigitVal(c) ==
  CASE c = "0" -> 0 [] c = "1" -> 1 [] c = "2" -> 2 [] c = "3" -> 3
    [] c = "4" -> 4 [] c = "5" -> 5 [] c = "6" -> 6 [] c = "7" -> 7
    [] c = "8" -> 8 [] c = "9" -> 9

\* s.split('x'): the pieces between the separators, empty pieces included
RECURSIVE SplitAcc(_, _, _)
SplitAcc(s, cur, acc) ==
  IF s = <<>> THEN Append(acc, cur)
  ELSE IF Head(s) = "x" THEN SplitAcc(Tail(s), <<>>, Append(acc, cur))
  ELSE SplitAcc(Tail(s), Append(cur, Head(s)), acc)

split_x(s) == SplitAcc(s, <<>>, <<>>)

\* A u32 is kept as its decimal numeral without leading zeros, which is exact
\* for all 32 bits
U32MaxNumeral == <<"4", "2", "9", "4", "9", "6", "7", "2", "9", "5">>

RECURSIVE StripZeros(_)
StripZeros(s) ==
  IF Len(s) > 1 /\ Head(s) = "0" THEN StripZeros(Tail(s)) ELSE s

\* a <= b for two numerals of the same length
RECURSIVE NumeralLeq(_, _)
NumeralLeq(a, b) ==
  IF a = <<>> THEN TRUE
  ELSE IF DigitVal(Head(a)) < DigitVal(Head(b)) THEN TRUE
  ELSE IF DigitVal(Head(a)) > DigitVal(Head(b)) THEN FALSE
  ELSE NumeralLeq(Tail(a), Tail(b))

FitsU32(n) ==
  \/ Len(n) < Len(U32MaxNumeral)
  \/ Len(n) = Len(U32MaxNumeral) /\ NumeralLeq(n, U32MaxNumeral)

\* str::parse::<u32>: an optional leading '+', then one or more decimal
\* digits whose value fits 32 bits; everything else is an error
parse_u32(s) ==
  LET body == IF s # <<>> /\ Head(s) = "+" THEN Tail(s) ELSE s
      good == /\ body # <<>>
              /\ \A i \in 1..Len(body) : body[i] \in Digits
              /\ FitsU32(StripZeros(body))
  IN IF good THEN [ok |-> TRUE, val |-> StripZeros(body)]
     ELSE [ok |-> FALSE, val |-> <<"0">>]

from_str(s) ==
  LET parts == split_x(s) IN
  IF Len(parts) # 2 THEN [ok |-> FALSE, width |-> <<"0">>, height |-> <<"0">>]
  ELSE LET w == parse_u32(parts[1])
           h == parse_u32(parts[2])
       IN IF ~w.ok \/ ~h.ok
          THEN [ok |-> FALSE, width |-> <<"0">>, height |-> <<"0">>]
          ELSE [ok |-> TRUE, width |-> w.val, height |-> h.val]

\* Url::parse is the url crate's; the request carries its verdict
UrlSamples == {"http://127.0.0.1:8080", "not a url"}
url_parse_ok(u) == u = "http://127.0.0.1:8080"

SizeSamples == { <<"8", "x", "6">>, <<"8", "6">>, <<"8", "x", "-", "6">> }

\* options.wait, whole seconds
WaitSamples == {0, 2}

\* ---------------------------------------------------------------- state
VARIABLES
  opt,          \* CaptureOptions of the run
  extLive,      \* a driver started by someone else listens on the port
  children,     \* driver processes spawned so far: "starting" | "listening" | "reaped"
  process,      \* ChromeDriverManager.process: 0 = None, i = Some(children[i])
  kills,        \* targets of kill()+wait(), in order; 0 = the external driver
  mpc,          \* position of the manager: "new" | "polling" | "returned" | "dropped"
  elapsed,      \* start_time.elapsed() in the poll loop
  probeOk,      \* the last is_running() of the current start() succeeded
  startResult,  \* result of the last start(): "none" | "Ok" | error
  starts,       \* number of start() calls
  pc,           \* position of perform_capture
  result,       \* what perform_capture returned: "none" | "Ok" | error | "panic"
  viewport,     \* parsed ViewportSize
  session,      \* browser session: "none" | "open" | "closed"
  quitCalls,    \* number of driver.quit() requests
  ops,          \* requests made to the session, in order: [op, ok]
  shots,        \* number of screenshot_as_png requests
  frames,       \* create_recording's Vec of frame paths (frame number i)
  tempfiles,    \* frame number -> screenshot stored in the temporary directory
  loaded,       \* create_gif_from_frames' Vec of decoded images
  encodeCalls,  \* number of write_gif_to_buffer calls
  stdout,       \* chunks written to standard output
  file,         \* destination file: [exists, data]
  mserver,      \* MCPServer: [server, shutdown_tx, dropped] and the last
                \* of start()/stop() called on it with what it returned
  tasks,        \* serve tasks spawned by MCPServer::start, in order
  client,       \* the MCP client, once created: Some([timeout])
  listed,       \* what the last get_available_actions returned
  calls,        \* invoke_action calls made so far, with who made them and
                \* their outcome
  handled,      \* runs of the registered action handlers, in order
  peer,         \* a second perform_capture on the same port: [pc, bound]
  dims          \* width and height of the decoded frames given to the encoder

supVars == <<extLive, children, process, kills, mpc, elapsed, probeOk,
             startResult, starts>>
runVars == <<opt, pc, result, viewport, session, quitCalls, ops, shots, frames,
             tempfiles, loaded, encodeCalls, stdout, file>>
vars == <<opt, extLive, children, process, kills, mpc, elapsed, probeOk,
          startResult, starts, pc, result, viewport, session, quitCalls, ops, shots,
          frames, tempfiles, loaded, encodeCalls, stdout, file,
          mserver, tasks, client, listed, calls, handled, peer, dims>>
mcpVars == <<mserver, tasks, client, listed, calls>>
sideVars == <<handled, peer, dims>>

Chunk(k, n) == [kind |-> k, n |-> n, delay |-> 0]

\* Option<Option<u64>>::flatten
flatten(o) == IF o = None THEN None ELSE o[1]

\* args.record: absent, `--record` without a value, `--record n`
RecordArgs ==
  {None, Some(None)} \cup {Some(Some(n)) : n \in 0..MaxRecordingLength}

\* the CaptureOptions handed to perform_capture; is_recording and
\* recording_length as run_capture derives them from args.record
Requests ==
  { [url |-> u, size |-> s, js |-> j, is_recording |-> (record # None),
     recording_length |-> flatten(record), is_piped |-> p, debug |-> d,
     wait |-> w] :
      u \in UrlSamples, s \in SizeSamples, j \in {None, Some("js")},
      record \in RecordArgs, p \in BOOLEAN, d \in BOOLEAN, w \in WaitSamples }

\* MCPServer::new, and no client yet
McpFresh ==
  /\ mserver = [server |-> None, shutdown_tx |-> 0, dropped |-> FALSE,
                last |-> "none", returned |-> "none"]
  /\ tasks = <<>>
  /\ client = None
  /\ listed = None
  /\ calls = <<>>

\* no handler has run, no second run exists, no frame has been decoded
SideFresh ==
  /\ handled = <<>>
  /\ peer = [pc |-> "Absent", bound |-> 0]
  /\ dims = [width |-> 0, height |-> 0]

\* ChromeDriverManager::new, and the locals of perform_capture before it runs
Fresh ==
  /\ children = <<>>
  /\ process = 0
  /\ kills = <<>>
  /\ mpc = "new"
  /\ elapsed = 0
  /\ probeOk = FALSE
  /\ startResult = "none"
  /\ starts = 0
  /\ pc = "Idle"
  /\ result = "none"
  /\ viewport = [width |-> <<"0">>, height |-> <<"0">>]
  /\ session = "none"
  /\ quitCalls = 0
  /\ ops = <<>>
  /\ shots = 0
  /\ frames = <<>>
  /\ tempfiles = <<>>
  /\ loaded = <<>>
  /\ encodeCalls = 0
  /\ stdout = <<>>

Init ==
  /\ opt \in Requests
  /\ extLive \in BOOLEAN
  /\ Fresh
  /\ McpFresh
  /\ SideFresh
  /\ file \in { [exists |-> FALSE, data |-> <<>>],
                [exists |-> TRUE, data |-> <<Chunk("old", 0)>>] }

\* ------------------------------------------------- ChromeDriverManager
\* TcpStream::connect to the port succeeds
is_running == extLive \/ \E i \in 1..Len(children) : children[i] = "listening"

\* variant: start() that spawns without looking at the port first
start_spawns_regardless ==
  /\ children' = Append(children, "starting")
  /\ process' = Len(children) + 1
  /\ mpc' = "polling"
  /\ elapsed' = 0
  /\ probeOk' = FALSE
  /\ startResult' = "none"

\* start(): the port answers already
start_already_running ==
  /\ mpc' = "returned"
  /\ startResult' = "Ok"
  /\ probeOk' = TRUE
  /\ elapsed' = 0
  /\ UNCHANGED <<children, process>>

\* start(): Command::spawn failed, `?` returns before self.process is set
start_spawn_failed ==
  /\ mpc' = "returned"
  /\ startResult' = "DriverNotFound"
  /\ probeOk' = FALSE
  /\ elapsed' = 0
  /\ UNCHANGED <<children, process>>

\* start(): the child was spawned; self.process = Some(process), then the
\* poll loop is entered with a fresh start_time
start_spawned ==
  /\ children' = Append(children, "starting")
  /\ process' = Len(children) + 1
  /\ mpc' = "polling"
  /\ elapsed' = 0
  /\ probeOk' = FALSE
  /\ startResult' = "none"

start_enter ==
  /\ starts' = starts + 1
  /\ UNCHANGED <<extLive, kills>>
  /\ IF is_running THEN start_already_running
     ELSE \E spawned \in BOOLEAN :
            IF spawned THEN start_spawned ELSE start_spawn_failed

\* variant: a poll loop without the elapsed-time test
timed_out_never(e) == FALSE

timed_out(e) == e > StartTimeoutMs

\* one turn of `while !self.is_running() { ... }`; the spawned child may have
\* begun to listen since the previous probe
start_poll ==
  /\ mpc = "polling"
  /\ UNCHANGED <<extLive, process, kills, starts>>
  /\ \E up \in BOOLEAN :
       IF up
       THEN /\ children' = [children EXCEPT ![process] = "listening"]
            /\ probeOk' = TRUE
            /\ mpc' = "returned"
            /\ startResult' = "Ok"
            /\ UNCHANGED elapsed
       ELSE /\ UNCHANGED <<children, probeOk>>
            /\ IF timed_out(elapsed)
               THEN /\ mpc' = "returned"
                    /\ startResult' = "DriverStartTimeout"
                    /\ UNCHANGED elapsed
               ELSE /\ \E d \in PollAdvance :
                         elapsed' = Min(elapsed + d, ElapsedCap)
                    /\ UNCHANGED <<mpc, startResult>>

\* variant: a Drop that lets the child go without kill and wait
drop_forgets_child ==
  /\ mpc' = "dropped"
  /\ process' = 0
  /\ UNCHANGED <<kills, children>>
  /\ UNCHANGED <<extLive, elapsed, probeOk, startResult, starts>>

\* variant: a Drop that stops whatever driver answers on the port
drop_kills_listener ==
  /\ mpc' = "dropped"
  /\ IF process # 0
     THEN /\ kills' = Append(kills, process)
          /\ children' = [children EXCEPT ![process] = "reaped"]
          /\ process' = 0
     ELSE /\ kills' = IF extLive THEN Append(kills, 0) ELSE kills
          /\ UNCHANGED <<children, process>>
  /\ UNCHANGED <<extLive, elapsed, probeOk, startResult, starts>>

\* Drop: self.process.take(), kill, wait (errors of both ignored)
drop_manager ==
  /\ mpc' = "dropped"
  /\ IF process # 0
     THEN /\ kills' = Append(kills, process)
          /\ children' = [children EXCEPT ![process] = "reaped"]
          /\ process' = 0
     ELSE UNCHANGED <<kills, children, process>>
  /\ UNCHANGED <<extLive, elapsed, probeOk, startResult, starts>>

\* --------------------------------------------------------- perform_capture
\* every `return` / `?` of perform_capture: the result goes to the caller and
\* the local `chromedriver` is dropped.  The WebDriver handle is dropped too;
\* nothing in the source asks the session to quit there.
Return(r) ==
  /\ pc' = IF r = "Ok" THEN "Done" ELSE "Failed"
  /\ result' = r
  /\ drop_manager

\* a panic leaves perform_capture without a result; destructors run when the
\* build unwinds and do not run when it aborts
Panic ==
  /\ pc' = "Panicked"
  /\ result' = "panic"
  /\ \E unwinds \in BOOLEAN :
       IF unwinds THEN drop_manager ELSE UNCHANGED supVars

\* variant: a recording without an explicit length lasts one second
recording_length_default_one ==
  IF opt.is_recording THEN unwrap_or(opt.recording_length, 1)
  ELSE 0

recording_length ==
  IF opt.is_recording THEN unwrap_or(opt.recording_length, DefaultRecordingLength)
  ELSE 0

\* variant: a frame count that is one too many
total_frames_inclusive(duration_secs) == duration_secs * frames_per_second + 1

total_frames(duration_secs) == duration_secs * frames_per_second

\* where perform_capture goes after each step that succeeded
\* variant: the result of start() is not propagated with `?`
after_start_ignores_error(r) == "ParseUrl"

\* variant: the script step is entered whether or not a script was given
after_navigate_always_script == "ExecuteJavascript"

after_start(r) == IF r = "Ok" THEN "ParseUrl" ELSE "Failed"
after_navigate == IF opt.js # None THEN "ExecuteJavascript" ELSE "Capture"
after_script == "Capture"
\* variant: a still capture goes on to the encoder
after_screenshot_encodes == "CreateGif"

after_screenshot == "Quit"
\* variant: after a recording a second session is opened
after_recording_opens_session == "SetupWebdriver"

after_recording == "Quit"

\* a request to the session (WebDriver::new included), whether it succeeded,
\* and the arguments that matter
SessionOpArg(o, k, a) == [op |-> o, ok |-> k, arg |-> a]
SessionOp(o, k) == SessionOpArg(o, k, <<>>)

\* sleep(Duration::from_millis(ms)).await, logged among the requests
Sleep(ms) == [op |-> "sleep", ok |-> TRUE, arg |-> <<ms>>]

\* variant: width and height are passed in the wrong order
window_rect_swapped(v) == <<v.height, v.width>>

\* setup_webdriver: the size given to set_window_rect(0, 0, width, height)
window_rect(v) == <<v.width, v.height>>

\* variant: the countdown also sleeps for second 0
settle_pause_counts_from_zero(wait) ==
  IF opt.is_piped \/ opt.debug THEN <<Sleep(wait * 1000)>>
  ELSE [i \in 1..(wait + 1) |-> Sleep(CountdownTickMs)]

\* navigate_and_wait after goto: sleep(wait_time) when piped, otherwise
\* display_countdown: one sleep of the whole duration with debug, one sleep
\* of a second per second of the duration without
\* variant: a piped run that does not pause after navigation
settle_pause_skips_when_piped(wait) ==
  IF opt.is_piped THEN <<>>
  ELSE IF opt.debug THEN <<Sleep(wait * 1000)>>
  ELSE [i \in 1..wait |-> Sleep(CountdownTickMs)]

settle_pause(wait) ==
  IF opt.is_piped \/ opt.debug THEN <<Sleep(wait * 1000)>>
  ELSE [i \in 1..wait |-> Sleep(CountdownTickMs)]

\* variant: the script is run without the pause after it
script_steps_no_grace(ok) == <<SessionOp("execute", ok)>>

\* execute_javascript: driver.execute(..)?, then sleep(500 ms)
script_steps(ok) ==
  IF ok THEN <<SessionOp("execute", TRUE), Sleep(ScriptGraceMs)>>
  ELSE <<SessionOp("execute", FALSE)>>

\* variant: the delay of a whole second
frame_delay_one_second == (1000 \div frames_per_second) * frames_per_second

\* create_recording: Duration::from_millis(1000 / frames_per_second)
frame_delay == 1000 \div frames_per_second

\* chromedriver.start()
PerformStart ==
  /\ UNCHANGED <<mcpVars, sideVars>>
  /\ pc = "Idle"
  /\ start_enter
  /\ pc' = "DriverStarting"
  /\ UNCHANGED <<opt, result, viewport, session, quitCalls, ops, shots, frames,
                 tempfiles, loaded, encodeCalls, stdout, file>>

PerformPoll ==
  /\ UNCHANGED <<mcpVars, sideVars>>
  /\ pc = "DriverStarting"
  /\ start_poll
  /\ UNCHANGED runVars

\* `chromedriver.start()?`
PerformStartReturned ==
  /\ UNCHANGED <<mcpVars, sideVars>>
  /\ pc = "DriverStarting"
  /\ mpc = "returned"
  /\ IF after_start(startResult) # "Failed"
     THEN /\ pc' = after_start(startResult)
          /\ elapsed' = 0
          /\ UNCHANGED <<extLive, children, process, kills, mpc, probeOk,
                         startResult, starts, result>>
     ELSE Return(startResult)
  /\ UNCHANGED <<opt, viewport, session, quitCalls, ops, shots, frames, tempfiles,
                 loaded, encodeCalls, stdout, file>>

\* Url::parse(&options.url).context(..)?
ParseUrl ==
  /\ UNCHANGED <<mcpVars, sideVars>>
  /\ pc = "ParseUrl"
  /\ IF url_parse_ok(opt.url)
     THEN pc' = "ParseViewport" /\ UNCHANGED <<supVars, result>>
     ELSE Return("UrlParseError")
  /\ UNCHANGED <<opt, viewport, session, quitCalls, ops, shots, frames, tempfiles,
                 loaded, encodeCalls, stdout, file>>

\* options.size.parse::<ViewportSize>()?
ParseViewport ==
  /\ UNCHANGED <<mcpVars, sideVars>>
  /\ pc = "ParseViewport"
  /\ LET v == from_str(opt.size) IN
       IF v.ok
       THEN /\ viewport' = [width |-> v.width, height |-> v.height]
            /\ pc' = "SetupWebdriver"
            /\ UNCHANGED <<supVars, result>>
       ELSE Return("MalformedViewportSpec") /\ UNCHANGED viewport
  /\ UNCHANGED <<opt, session, quitCalls, ops, shots, frames, tempfiles, loaded,
                 encodeCalls,
                 stdout, file>>

\* setup_webdriver: WebDriver::new, then set_window_rect
setup_webdriver ==
  /\ UNCHANGED <<mcpVars, sideVars>>
  /\ pc = "SetupWebdriver"
  /\ \E outcome \in {"ok", "new_failed", "rect_failed"} :
       CASE outcome = "new_failed" ->
              /\ ops' = Append(ops, SessionOp("new_session", FALSE))
              /\ Return("SessionSetupFailed")
              /\ UNCHANGED session
         [] outcome = "rect_failed" ->
              /\ ops' = ops \o <<SessionOp("new_session", TRUE),
                                 SessionOpArg("set_window_rect", FALSE,
                                              window_rect(viewport))>>
              /\ session' = "open"
              /\ Return("SessionSetupFailed")
         [] outcome = "ok" ->
              /\ ops' = ops \o <<SessionOp("new_session", TRUE),
                                 SessionOpArg("set_window_rect", TRUE,
                                              window_rect(viewport))>>
              /\ session' = "open"
              /\ pc' = "Navigate"
              /\ UNCHANGED <<supVars, result>>
  /\ UNCHANGED <<opt, viewport, quitCalls, shots, frames, tempfiles, loaded,
                 encodeCalls,
                 stdout, file>>

\* variant: the error of driver.goto is dropped and the run goes on
navigate_ignores_error ==
  /\ UNCHANGED <<mcpVars, sideVars>>
  /\ pc = "Navigate"
  /\ \E ok \in BOOLEAN :
       /\ ops' = Append(ops, SessionOp("goto", ok)) \o settle_pause(opt.wait)
       /\ pc' = after_navigate
       /\ UNCHANGED <<supVars, result>>
  /\ UNCHANGED <<opt, viewport, session, quitCalls, shots, frames, tempfiles,
                 loaded, encodeCalls, stdout, file>>

\* navigate_and_wait: driver.goto, then the settle pause
navigate_and_wait ==
  /\ UNCHANGED <<mcpVars, sideVars>>
  /\ pc = "Navigate"
  /\ \E ok \in BOOLEAN :
       /\ ops' = IF ok THEN Append(ops, SessionOp("goto", TRUE))
                           \o settle_pause(opt.wait)
                 ELSE Append(ops, SessionOp("goto", FALSE))
       /\ IF ok THEN pc' = after_navigate /\ UNCHANGED <<supVars, result>>
          ELSE Return("NavigationFailed")
  /\ UNCHANGED <<opt, viewport, session, quitCalls, shots, frames, tempfiles,
                 loaded, encodeCalls, stdout, file>>

\* variant: the error of driver.execute is dropped and the run goes on
execute_ignores_error ==
  /\ UNCHANGED <<mcpVars, sideVars>>
  /\ pc = "ExecuteJavascript"
  /\ \E ok \in BOOLEAN :
       /\ ops' = ops \o script_steps(ok)
       /\ pc' = after_script
       /\ UNCHANGED <<supVars, result>>
  /\ UNCHANGED <<opt, viewport, session, quitCalls, shots, frames, tempfiles,
                 loaded, encodeCalls, stdout, file>>

\* execute_javascript: driver.execute, then the 500 ms pause
execute_javascript ==
  /\ UNCHANGED <<mcpVars, sideVars>>
  /\ pc = "ExecuteJavascript"
  /\ \E ok \in BOOLEAN :
       /\ ops' = ops \o script_steps(ok)
       /\ IF ok THEN pc' = after_script /\ UNCHANGED <<supVars, result>>
          ELSE Return("ScriptExecutionFailed")
  /\ UNCHANGED <<opt, viewport, session, quitCalls, shots, frames, tempfiles,
                 loaded, encodeCalls, stdout, file>>

\* variant: the image is written to the destination path even when it is "-"
deliver_screenshot_to_file(png_data) ==
  /\ file' = [exists |-> TRUE, data |-> <<png_data>>]
  /\ UNCHANGED stdout

\* take_screenshot, the write: stdout().write_all(&png_data) when the
\* destination is "-", fs::write(output_path, png_data) otherwise
deliver_screenshot(png_data) ==
  IF opt.is_piped
  THEN /\ stdout' = Append(stdout, png_data)
       /\ UNCHANGED file
  ELSE /\ file' = [exists |-> TRUE, data |-> <<png_data>>]
       /\ UNCHANGED stdout

\* take_screenshot: one screenshot_as_png, written to stdout or to the file
take_screenshot ==
  /\ UNCHANGED <<mcpVars, sideVars>>
  /\ pc = "Capture"
  /\ ~opt.is_recording
  /\ shots' = shots + 1
  /\ \E outcome \in {"ok", "shot_failed", "open_failed", "write_failed"} :
       /\ ops' = Append(ops, SessionOp("screenshot", outcome # "shot_failed"))
       /\ CASE outcome = "shot_failed" ->
                 Return("FrameCaptureFailed") /\ UNCHANGED <<stdout, file>>
            [] outcome = "open_failed" ->
                 /\ ~opt.is_piped
                 /\ Return("IoError")
                 /\ UNCHANGED <<stdout, file>>
            [] outcome = "write_failed" ->
                 /\ Return("IoError")
                 /\ IF opt.is_piped
                    THEN /\ \E part \in BOOLEAN :
                              stdout' = IF part
                                        THEN Append(stdout, Chunk("partial", shots + 1))
                                        ELSE stdout
                         /\ UNCHANGED file
                    ELSE /\ file' = [exists |-> TRUE, data |-> <<>>]
                         /\ UNCHANGED stdout
            [] outcome = "ok" ->
                 /\ deliver_screenshot(Chunk("png", shots + 1))
                 /\ pc' = after_screenshot
                 /\ UNCHANGED <<supVars, result>>
  /\ UNCHANGED <<opt, viewport, session, quitCalls, frames, tempfiles, loaded,
                 encodeCalls>>

\* create_recording, entry: tempfile::tempdir()?
record_begin ==
  /\ UNCHANGED <<mcpVars, sideVars>>
  /\ pc = "Capture"
  /\ opt.is_recording
  /\ \E ok \in BOOLEAN :
       IF ok THEN pc' = "RecordLoop" /\ UNCHANGED <<supVars, result>>
       ELSE Return("IoError")
  /\ UNCHANGED <<opt, viewport, session, quitCalls, ops, shots, frames, tempfiles,
                 loaded, encodeCalls, stdout, file>>

\* variant: a turn of the loop that takes the screenshot again when it failed
record_frame_retries ==
  /\ UNCHANGED <<mcpVars, sideVars>>
  /\ pc = "RecordLoop"
  /\ Len(frames) < total_frames(recording_length)
  /\ shots' = shots + 1
  /\ \E outcome \in {"ok", "shot_failed", "write_failed"} :
       /\ ops' = Append(ops, SessionOp("screenshot", outcome # "shot_failed"))
                   \o (IF outcome = "ok" THEN <<Sleep(frame_delay)>> ELSE <<>>)
       /\ CASE outcome = "shot_failed" ->
                 UNCHANGED <<pc, supVars, result, frames, tempfiles>>
            [] outcome = "write_failed" ->
                 Return("IoError") /\ UNCHANGED <<frames, tempfiles>>
            [] outcome = "ok" ->
                 /\ tempfiles' = Append(tempfiles, shots + 1)
                 /\ frames' = Append(frames, Len(frames))
                 /\ UNCHANGED <<pc, supVars, result>>
  /\ UNCHANGED <<opt, viewport, session, quitCalls, loaded, encodeCalls,
                 stdout, file>>

\* create_recording, one turn of `for i in 0..total_frames` (the three
\* copies of the loop differ in what they print): screenshot, write the frame
\* file frame_{i:04}.png, push its path, then sleep(frame_delay)
record_frame ==
  /\ UNCHANGED <<mcpVars, sideVars>>
  /\ pc = "RecordLoop"
  /\ Len(frames) < total_frames(recording_length)
  /\ shots' = shots + 1
  /\ \E outcome \in {"ok", "shot_failed", "write_failed"} :
       /\ ops' = Append(ops, SessionOp("screenshot", outcome # "shot_failed"))
                   \o (IF outcome = "ok" THEN <<Sleep(frame_delay)>> ELSE <<>>)
       /\ CASE outcome = "shot_failed" ->
                 Return("FrameCaptureFailed") /\ UNCHANGED <<frames, tempfiles>>
            [] outcome = "write_failed" ->
                 Return("IoError") /\ UNCHANGED <<frames, tempfiles>>
            [] outcome = "ok" ->
                 /\ tempfiles' = Append(tempfiles, shots + 1)
                 /\ frames' = Append(frames, Len(frames))
                 /\ UNCHANGED <<pc, supVars, result>>
  /\ UNCHANGED <<opt, viewport, session, quitCalls, loaded, encodeCalls,
                 stdout, file>>

\* create_recording: the loop is over, create_gif_from_frames is called
record_done ==
  /\ UNCHANGED <<mcpVars, sideVars>>
  /\ pc = "RecordLoop"
  /\ Len(frames) >= total_frames(recording_length)
  /\ pc' = "CreateGif"
  /\ UNCHANGED <<supVars, opt, result, viewport, session, quitCalls, ops, shots,
                 frames, tempfiles, loaded, encodeCalls, stdout, file>>

\* create_gif_from_frames, one turn of the load loop: image::open(path)?
load_frame ==
  /\ UNCHANGED <<mcpVars, sideVars>>
  /\ pc = "CreateGif"
  /\ Len(loaded) < Len(frames)
  /\ \E ok \in BOOLEAN :
       IF ok
       THEN /\ loaded' = Append(loaded, tempfiles[frames[Len(loaded) + 1] + 1])
            /\ UNCHANGED <<pc, supVars, result>>
       ELSE Return("FrameDecodeFailed") /\ UNCHANGED loaded
  /\ UNCHANGED <<opt, viewport, session, quitCalls, ops, shots, frames, tempfiles,
                 encodeCalls, stdout, file>>

GifFrame(img) == [kind |-> "frame", n |-> img, delay |-> GifFrameDelay]

\* variant: set_repeat is called after the frame loop
gif_stream_repeat_last(imgs) ==
  <<Chunk("header", 0)>>
    \o [i \in 1..Len(imgs) |-> GifFrame(imgs[i])]
    \o <<Chunk("repeat_infinite", 0)>>

\* what write_gif_to_buffer writes when nothing fails: Encoder::new (header),
\* set_repeat(Infinite), then one frame per image
gif_stream(imgs) ==
  <<Chunk("header", 0), Chunk("repeat_infinite", 0)>>
    \o [i \in 1..Len(imgs) |-> GifFrame(imgs[i])]

\* write_gif_to_buffer(frames, buffer): frames[0] panics on an empty slice;
\* failAt = 0: every write succeeds, failAt = k: the k-th write fails
write_gif_to_buffer(imgs, failAt) ==
  IF imgs = <<>> THEN [status |-> "panic", written |-> <<>>]
  ELSE IF failAt = 0 THEN [status |-> "Ok", written |-> gif_stream(imgs)]
  ELSE [status |-> "Err", written |-> SubSeq(gif_stream(imgs), 1, failAt - 1)]

\* create_gif_from_frames, after the load loop, destination "-": encode into a
\* Vec (writes to it cannot fail), then stdout.write_all
create_gif_stdout ==
  LET r == write_gif_to_buffer(loaded, 0) IN
  /\ UNCHANGED file
  /\ encodeCalls' = encodeCalls + 1
  /\ IF r.status = "panic" THEN Panic /\ UNCHANGED stdout
     ELSE \E sent \in 0..Len(r.written) :
            /\ stdout' = stdout \o SubSeq(r.written, 1, sent)
            /\ IF sent = Len(r.written)
               THEN pc' = after_recording /\ UNCHANGED <<supVars, result>>
               ELSE Return("IoError")

\* create_gif_from_frames, after the load loop, destination a path:
\* File::create(output_path)?, then encode into the file
create_gif_file ==
  /\ UNCHANGED stdout
  /\ \E created \in BOOLEAN :
       IF ~created THEN Return("IoError") /\ UNCHANGED <<file, encodeCalls>>
       ELSE \E failAt \in 0..(Len(loaded) + 2) :
              LET r == write_gif_to_buffer(loaded, failAt) IN
              /\ encodeCalls' = encodeCalls + 1
              /\ file' = [exists |-> TRUE, data |-> r.written]
              /\ CASE r.status = "panic" -> Panic
                   [] r.status = "Err" -> Return("EncodeFailed")
                   [] r.status = "Ok" ->
                        pc' = after_recording /\ UNCHANGED <<supVars, result>>

create_gif ==
  /\ UNCHANGED <<mcpVars, sideVars>>
  /\ pc = "CreateGif"
  /\ Len(loaded) >= Len(frames)
  /\ IF opt.is_piped THEN create_gif_stdout ELSE create_gif_file
  /\ UNCHANGED <<opt, viewport, session, quitCalls, ops, shots, frames, tempfiles,
                 loaded>>

\* driver.quit().await?, then Ok(())
quit ==
  /\ UNCHANGED <<mcpVars, sideVars>>
  /\ pc = "Quit"
  /\ quitCalls' = quitCalls + 1
  /\ \E ok \in BOOLEAN :
       /\ ops' = Append(ops, SessionOp("quit", ok))
       /\ IF ok THEN session' = "closed" /\ Return("Ok")
          ELSE Return("QuitFailed") /\ UNCHANGED session
  /\ UNCHANGED <<opt, viewport, shots, frames, tempfiles, loaded, encodeCalls,
                 stdout, file>>

Next ==
  \/ PerformStart
  \/ PerformPoll
  \/ PerformStartReturned
  \/ ParseUrl
  \/ ParseViewport
  \/ setup_webdriver
  \/ navigate_and_wait
  \/ execute_javascript
  \/ take_screenshot
  \/ record_begin
  \/ record_frame
  \/ record_done
  \/ load_frame
  \/ create_gif
  \/ quit

Spec == Init /\ [][Next]_vars

\* the run cannot stop in the middle of its code
FairSpec == Spec /\ WF_vars(Next)

\* ------------------------------------------- a caller of the manager alone
SupStart ==
  /\ UNCHANGED <<mcpVars, sideVars>>
  /\ pc = "Idle"
  /\ mpc \in {"new", "returned"}
  /\ starts < MaxStarts
  /\ start_enter
  /\ UNCHANGED runVars

SupPoll ==
  /\ UNCHANGED <<mcpVars, sideVars>>
  /\ pc = "Idle"
  /\ start_poll
  /\ UNCHANGED runVars

\* the manager value goes out of scope
SupDrop ==
  /\ UNCHANGED <<mcpVars, sideVars>>
  /\ pc = "Idle"
  /\ mpc \in {"new", "returned"}
  /\ drop_manager
  /\ UNCHANGED runVars

InitSup ==
  /\ Init
  /\ opt = [url |-> "not a url", size |-> <<"8", "6">>, js |-> None,
            is_recording |-> FALSE, recording_length |-> None,
            is_piped |-> FALSE, debug |-> FALSE, wait |-> 0]

NextSup == SupStart \/ SupPoll \/ SupDrop

SpecSup == InitSup /\ [][NextSup]_vars

FairSpecSup == SpecSup /\ WF_vars(NextSup)

\* ------------------------------------------------ the viewport parser alone
\* the characters size strings are drawn from, and two sizes around 2^32
SizeAlphabet == {"0", "1", "9", "x", "+", "-"}

RECURSIVE StringsUpTo(_)
StringsUpTo(n) ==
  IF n = 0 THEN { <<>> }
  ELSE LET shorter == StringsUpTo(n - 1) IN
       shorter \cup { Append(s, c) : s \in shorter, c \in SizeAlphabet }

LongSizes ==
  { U32MaxNumeral \o <<"x", "1">>,
    <<"4", "2", "9", "4", "9", "6", "7", "2", "9", "6", "x", "1">>,
    <<"1", "x">> \o U32MaxNumeral \o <<"0">> }

\* options.size.parse::<ViewportSize>() applied to one string
parse_size ==
  /\ UNCHANGED <<mcpVars, sideVars>>
  /\ pc = "Idle"
  /\ LET v == from_str(opt.size) IN
       /\ viewport' = IF v.ok THEN [width |-> v.width, height |-> v.height]
                      ELSE viewport
       /\ result' = IF v.ok THEN "Ok" ELSE "MalformedViewportSpec"
  /\ pc' = "Parsed"
  /\ UNCHANGED <<supVars, opt, session, quitCalls, ops, shots, frames, tempfiles,
                 loaded, encodeCalls, stdout, file>>

InitParse ==
  /\ opt \in { [url |-> "http://127.0.0.1:8080", size |-> s, js |-> None,
                is_recording |-> FALSE, recording_length |-> None,
                is_piped |-> FALSE, debug |-> FALSE, wait |-> 0] :
                  s \in StringsUpTo(MaxSizeLen) \cup LongSizes }
  /\ extLive = FALSE
  /\ Fresh
  /\ McpFresh
  /\ SideFresh
  /\ file = [exists |-> FALSE, data |-> <<>>]

NextParse == parse_size

SpecParse == InitParse /\ [][NextParse]_vars

\* ------------------------------------------------------ MCP server and client
\* Server::register_action: insert into the map keyed by the action's name
register_action(actions, name) == actions \cup {name}

\* variant: only the screenshot action is registered
register_actions_screenshot_only(actions) ==
  register_action(actions, "capture_screenshot")

\* actions::register_actions
register_actions(actions) ==
  register_action(register_action(actions, "capture_screenshot"),
                  "record_interaction")

\* the sender of a serve task's shutdown channel is used or dropped: the
\* task's `rx` branch becomes ready
signal(ts, tx) ==
  IF tx = 0 THEN ts ELSE [ts EXCEPT ![tx] = "signalled"]

\* variant: start() that keeps the previous shutdown sender alive
mcp_start_leaks_sender ==
  /\ ~mserver.dropped
  /\ Len(tasks) < MaxServerStarts
  /\ tasks' = Append(tasks, "serving")
  /\ mserver' = [mserver EXCEPT !.server = Some(register_actions({})),
                                !.shutdown_tx = Len(tasks) + 1,
                                !.last = "start", !.returned = "Ok"]
  /\ UNCHANGED <<supVars, runVars, sideVars, client, listed, calls>>

\* MCPServer::start: a new Server with the actions registered, a new
\* shutdown channel (the previous sender, if any, is dropped by the
\* assignment), and a spawned task selecting on serve() and the channel
mcp_start ==
  /\ ~mserver.dropped
  /\ Len(tasks) < MaxServerStarts
  /\ tasks' = Append(signal(tasks, mserver.shutdown_tx), "serving")
  /\ mserver' = [mserver EXCEPT !.server = Some(register_actions({})),
                                !.shutdown_tx = Len(tasks) + 1,
                                !.last = "start", !.returned = "Ok"]
  /\ UNCHANGED <<supVars, runVars, sideVars, client, listed, calls>>

\* Server::shutdown
shutdown == "Ok"

\* variant: stop forgets the server but leaves the shutdown sender in place
mcp_stop_keeps_sender ==
  /\ ~mserver.dropped
  /\ tasks' = tasks
  /\ mserver' = [mserver EXCEPT
                   !.server = None, !.last = "stop",
                   !.returned = IF mserver.server # None THEN shutdown ELSE "Ok"]
  /\ UNCHANGED <<supVars, runVars, sideVars, client, listed, calls>>

\* MCPServer::stop: take and send on the shutdown sender, server.shutdown()?
\* when a server is held, then forget the server
mcp_stop ==
  /\ ~mserver.dropped
  /\ tasks' = signal(tasks, mserver.shutdown_tx)
  /\ mserver' = [mserver EXCEPT
                   !.server = None, !.shutdown_tx = 0, !.last = "stop",
                   !.returned = IF mserver.server # None THEN shutdown ELSE "Ok"]
  /\ UNCHANGED <<supVars, runVars, sideVars, client, listed, calls>>

\* Drop for MCPServer: take and send on the shutdown sender
mcp_drop ==
  /\ ~mserver.dropped
  /\ tasks' = signal(tasks, mserver.shutdown_tx)
  /\ mserver' = [mserver EXCEPT !.shutdown_tx = 0, !.dropped = TRUE]
  /\ UNCHANGED <<supVars, runVars, sideVars, client, listed, calls>>

\* the spawned task: serve() waits for ever, so the task ends through the
\* shutdown branch, once its channel has been signalled
serve_task ==
  /\ \E i \in 1..Len(tasks) :
       /\ tasks[i] = "signalled"
       /\ tasks' = [tasks EXCEPT ![i] = "stopped"]
  /\ UNCHANGED <<supVars, runVars, sideVars, mserver, client, listed, calls>>

\* a timeout given to ClientConfig::with_timeout by a caller of the SDK
\* client, shorter than the slow action
TimeoutSamples == {1}

\* MCPClient::new (60 s), or Client::new with the default or a chosen timeout
client_new ==
  /\ client = None
  /\ \E t \in {McpClientTimeoutSecs, DefaultClientTimeoutSecs} \cup TimeoutSamples :
       client' = Some([timeout |-> t])
  /\ UNCHANGED <<supVars, runVars, sideVars, mserver, tasks, listed, calls>>

\* Client::get_available_actions, names as MCPClient maps them
available_actions == <<"capture_screenshot", "record_interaction">>

get_available_actions ==
  /\ client # None
  /\ listed' = Some(available_actions)
  /\ UNCHANGED <<supVars, runVars, sideVars, mserver, tasks, client, calls>>

ActionNameSamples ==
  {"capture_screenshot", "record_interaction", "invalid_action", "slow_action",
   "unknown_action"}

\* Client::invoke_action: the match on the action name; took = seconds the
\* call waits before it returns
invoke(action_name) ==
  CASE action_name = "capture_screenshot" ->
         [status |-> "Ok", body |-> "png", took |-> 0]
    [] action_name = "record_interaction" ->
         [status |-> "Ok", body |-> "gif", took |-> 0]
    [] action_name = "invalid_action" ->
         [status |-> "Err", body |-> "Action not found", took |-> 0]
    [] action_name = "slow_action" ->
         [status |-> "Ok", body |-> "ok", took |-> SlowActionSecs]
    [] OTHER ->
         [status |-> "Ok", body |-> "ok", took |-> 0]

\* MCPClient::invoke_action: the SDK client's result, passed on
invoke_action ==
  /\ client # None
  /\ Len(calls) < MaxCalls
  /\ \E action_name \in ActionNameSamples :
       LET r == invoke(action_name) IN
       calls' = Append(calls, [by |-> "caller", action |-> action_name,
                               timeout |-> client[1].timeout,
                               status |-> r.status, body |-> r.body,
                               took |-> r.took])
  /\ UNCHANGED <<supVars, runVars, sideVars, mserver, tasks, client, listed>>

\* ------------------------------------------------- the CLI as an MCP client
\* the standard base64 alphabet, value i at position i + 1
B64Chars ==
  <<
    "A", "B", "C", "D", "E", "F", "G", "H", "I", "J", "K", "L",
    "M", "N", "O", "P", "Q", "R", "S", "T", "U", "V", "W", "X",
    "Y", "Z", "a", "b", "c", "d", "e", "f", "g", "h", "i", "j",
    "k", "l", "m", "n", "o", "p", "q", "r", "s", "t", "u", "v",
    "w", "x", "y", "z", "0", "1", "2", "3", "4", "5", "6", "7",
    "8", "9", "+", "/" >>

IsB64(c) == \E i \in 1..64 : B64Chars[i] = c
B64Val(c) == (CHOOSE i \in 1..64 : B64Chars[i] = c) - 1

\* four characters of the alphabet are three bytes
RECURSIVE decode_quads(_)
decode_quads(s) ==
  IF Len(s) < 4 THEN <<>>
  ELSE LET v == B64Val(s[1]) * 262144 + B64Val(s[2]) * 4096
                  + B64Val(s[3]) * 64 + B64Val(s[4])
       IN <<v \div 65536, (v \div 256) % 256, v % 256>>
            \o decode_quads(SubSeq(s, 5, Len(s)))

\* the last, padded group: two characters are one byte, three are two; the
\* bits that belong to no byte must be zero
decode_tail(t) ==
  IF Len(t) = 2
  THEN [ok |-> B64Val(t[2]) % 16 = 0,
        bytes |-> <<B64Val(t[1]) * 4 + B64Val(t[2]) \div 16>>]
  ELSE [ok |-> B64Val(t[3]) % 4 = 0,
        bytes |-> <<B64Val(t[1]) * 4 + B64Val(t[2]) \div 16,
                    (B64Val(t[2]) % 16) * 16 + B64Val(t[3]) \div 4>>]

\* base64::engine::general_purpose::STANDARD.decode: canonical padding is
\* required, every other character must be of the alphabet
base64_decode(s) ==
  LET n == Len(s)
      pad == IF n >= 2 /\ s[n] = "=" /\ s[n - 1] = "=" THEN 2
             ELSE IF n >= 1 /\ s[n] = "=" THEN 1 ELSE 0
      body == SubSeq(s, 1, n - pad)
      whole == SubSeq(body, 1, Len(body) - (Len(body) % 4))
      tail == SubSeq(body, Len(whole) + 1, Len(body))
  IN IF n % 4 # 0 \/ (\E i \in 1..Len(body) : ~IsB64(body[i]))
     THEN [ok |-> FALSE, bytes |-> <<>>]
     ELSE IF tail = <<>> THEN [ok |-> TRUE, bytes |-> decode_quads(whole)]
     ELSE LET t == decode_tail(tail) IN
          [ok |-> t.ok, bytes |-> IF t.ok THEN decode_quads(whole) \o t.bytes
                                  ELSE <<>>]

\* the image_data strings of the SDK client's two image responses
PngImageData ==
  <<
    "i", "V", "B", "O", "R", "w", "0", "K", "G", "g", "o", "A",
    "A", "A", "A", "N", "S", "U", "h", "E", "U", "g", "A", "A",
    "A", "A", "E", "A", "A", "A", "A", "B", "C", "A", "Y", "A",
    "A", "A", "A", "f", "F", "c", "S", "J", "A", "A", "A", "A",
    "D", "U", "l", "E", "Q", "V", "R", "4", "2", "m", "P", "8",
    "z", "8", "B", "Q", "D", "w", "A", "E", "h", "Q", "G", "A",
    "h", "K", "m", "M", "I", "Q", "A", "A", "A", "A", "B", "J",
    "R", "U", "5", "E", "r", "k", "J", "g", "g", "g", "=", "=" >>

GifImageData ==
  <<
    "R", "0", "l", "G", "O", "D", "l", "h", "A", "Q", "A", "B",
    "A", "I", "A", "A", "A", "A", "A", "A", "A", "P", "/", "/",
    "/", "y", "H", "5", "B", "A", "E", "A", "A", "A", "A", "A",
    "L", "A", "A", "A", "A", "A", "A", "B", "A", "A", "E", "A",
    "A", "A", "I", "B", "R", "A", "A", "7" >>

\* response["image_data"].as_str() on the responses of Client::invoke_action
response_image_data(body) ==
  CASE body = "png" -> Some(PngImageData)
    [] body = "gif" -> Some(GifImageData)
    [] OTHER -> None

\* variant: the screenshot action is invoked whatever the mode
mcp_action_always_screenshot == "capture_screenshot"

\* run_mcp_client: the action the mode selects
mcp_action ==
  IF opt.is_recording THEN "record_interaction" ELSE "capture_screenshot"

\* run_mcp_client: a client of its own, the list of actions, one invocation,
\* and the decoded image_data written to stdout or to the destination file;
\* a response without image_data is reported on stdout and the run is Ok
run_mcp_client ==
  /\ pc = "Idle"
  /\ Len(calls) < MaxCalls
  /\ listed' = Some(available_actions)
  /\ LET r == invoke(mcp_action)
         image_data == response_image_data(r.body)
         decoded == IF image_data = None THEN [ok |-> TRUE, bytes |-> <<>>]
                    ELSE base64_decode(image_data[1])
     IN /\ calls' = Append(calls, [by |-> "run_mcp_client",
                                   action |-> mcp_action,
                                   timeout |-> McpClientTimeoutSecs,
                                   status |-> r.status, body |-> r.body,
                                   took |-> r.took])
        /\ CASE r.status = "Err" ->
                  /\ pc' = "Failed" /\ result' = "ActionFailed"
                  /\ UNCHANGED <<stdout, file>>
             [] r.status = "Ok" /\ image_data = None ->
                  /\ pc' = "Done" /\ result' = "Ok"
                  /\ UNCHANGED <<stdout, file>>
             [] r.status = "Ok" /\ image_data # None /\ ~decoded.ok ->
                  /\ pc' = "Failed" /\ result' = "DecodeFailed"
                  /\ UNCHANGED <<stdout, file>>
             [] r.status = "Ok" /\ image_data # None /\ decoded.ok ->
                  \E written \in BOOLEAN :
                    /\ pc' = IF written THEN "Done" ELSE "Failed"
                    /\ result' = IF written THEN "Ok" ELSE "IoError"
                    /\ IF opt.is_piped
                       THEN /\ stdout' = IF written THEN stdout \o decoded.bytes
                                         ELSE stdout
                            /\ UNCHANGED file
                       ELSE /\ file' = IF written
                                       THEN [exists |-> TRUE, data |-> decoded.bytes]
                                       ELSE file
                            /\ UNCHANGED stdout
  /\ UNCHANGED <<supVars, sideVars, opt, viewport, session, quitCalls, ops, shots, frames,
                 tempfiles, loaded, encodeCalls, mserver, tasks, client>>

InitMcp ==
  /\ opt \in { [url |-> "http://127.0.0.1:8080", size |-> <<"8", "x", "6">>,
                js |-> None, is_recording |-> r, recording_length |-> None,
                is_piped |-> p, debug |-> FALSE, wait |-> 0] :
                  r \in BOOLEAN, p \in BOOLEAN }
  /\ extLive = FALSE
  /\ Fresh
  /\ McpFresh
  /\ SideFresh
  /\ file = [exists |-> FALSE, data |-> <<>>]

NextMcp ==
  \/ mcp_start
  \/ mcp_stop
  \/ mcp_drop
  \/ serve_task
  \/ client_new
  \/ get_available_actions
  \/ invoke_action
  \/ run_mcp_client

SpecMcp == InitMcp /\ [][NextMcp]_vars

\* the runtime polls a spawned task whose channel is ready
FairSpecMcp == SpecMcp /\ WF_vars(serve_task)

\* ------------------------------------------- the encoder's pixel conversion
\* channel values, and RGBA pixels <<r, g, b, a>>
ChannelSamples == {0, 255}
Pixels == ChannelSamples \X ChannelSamples \X ChannelSamples \X ChannelSamples

\* frames of equal size: f frames of n pixels each
FrameSeqs(f, n) == [1..f -> [1..n -> Pixels]]

\* variant: all four channels are handed to the encoder
RECURSIVE frame_data_rgba(_)
frame_data_rgba(img) ==
  IF img = <<>> THEN <<>>
  ELSE <<img[1][1], img[1][2], img[1][3], img[1][4]>> \o frame_data_rgba(Tail(img))

\* write_gif_to_buffer, the inner loop: pixel[0], pixel[1], pixel[2] of every
\* pixel pushed in order
RECURSIVE frame_data(_)
frame_data(img) ==
  IF img = <<>> THEN <<>>
  ELSE <<img[1][1], img[1][2], img[1][3]>> \o frame_data(Tail(img))

\* write_gif_to_buffer on RGBA frames with a writer that does not fail: each
\* frame reaches the encoder as its frame_data
encode_rgba(imgs) ==
  write_gif_to_buffer([k \in 1..Len(imgs) |-> frame_data(imgs[k])], 0)

encode_frames ==
  /\ UNCHANGED <<mcpVars, sideVars>>
  /\ pc = "Idle"
  /\ encodeCalls' = encodeCalls + 1
  /\ stdout' = encode_rgba(loaded).written
  /\ pc' = "Encoded"
  /\ UNCHANGED <<supVars, opt, result, viewport, session, quitCalls, ops, shots,
                 frames, tempfiles, loaded, file>>

InitEncode ==
  /\ opt = [url |-> "http://127.0.0.1:8080", size |-> <<"8", "x", "6">>,
            js |-> None, is_recording |-> TRUE, recording_length |-> None,
            is_piped |-> TRUE, debug |-> FALSE, wait |-> 0]
  /\ extLive = FALSE
  /\ children = <<>> /\ process = 0 /\ kills = <<>> /\ mpc = "new"
  /\ elapsed = 0 /\ probeOk = FALSE /\ startResult = "none" /\ starts = 0
  /\ pc = "Idle" /\ result = "none"
  /\ viewport = [width |-> <<"0">>, height |-> <<"0">>]
  /\ session = "none" /\ quitCalls = 0 /\ ops = <<>> /\ shots = 0
  /\ frames = <<>> /\ tempfiles = <<>> /\ encodeCalls = 0 /\ stdout = <<>>
  /\ loaded \in UNION { FrameSeqs(fn[1], fn[2]) :
                          fn \in { x \in (1..2) \X (1..MaxPixels) :
                                     x[1] * x[2] <= MaxPixels } }
  /\ McpFresh
  /\ SideFresh
  /\ file = [exists |-> FALSE, data |-> <<>>]

NextEncode == encode_frames

SpecEncode == InitEncode /\ [][NextEncode]_vars

\* ------------------------------------------- two runs on the same port
\* The second run executes the same perform_capture; of its paths the model
\* keeps the one in which its start() finds the port answering and returns
\* without a process of its own.  bound is the driver its session was
\* created on: 0 for a driver started by someone else, i for children[i].
listener ==
  IF extLive THEN 0
  ELSE CHOOSE i \in 1..Len(children) : children[i] = "listening"

driver_alive(d) == IF d = 0 THEN extLive ELSE children[d] = "listening"

\* perform_capture of the second run: chromedriver.start()? with the port live
peer_start ==
  /\ peer.pc = "Idle"
  /\ is_running
  /\ peer' = [peer EXCEPT !.pc = "SetupWebdriver"]
  /\ UNCHANGED <<supVars, runVars, mcpVars, handled, dims>>

\* setup_webdriver of the second run: WebDriver::new("http://localhost:9515")
\* reaches whatever driver listens on the port at that moment
peer_setup_webdriver ==
  /\ peer.pc = "SetupWebdriver"
  /\ IF is_running
     THEN \E ok \in BOOLEAN :
            peer' = IF ok THEN [pc |-> "InUse", bound |-> listener]
                    ELSE [peer EXCEPT !.pc = "Failed"]
     ELSE peer' = [peer EXCEPT !.pc = "Failed"]
  /\ UNCHANGED <<supVars, runVars, mcpVars, handled, dims>>

\* the second run navigates, captures and quits: requests to its session,
\* which fail once the driver the session lives on is gone; on return its
\* manager holds no process and kills nothing
peer_request ==
  /\ peer.pc = "InUse"
  /\ IF driver_alive(peer.bound)
     THEN \E r \in {"InUse", "Done", "Failed"} : peer' = [peer EXCEPT !.pc = r]
     ELSE peer' = [peer EXCEPT !.pc = "Failed"]
  /\ UNCHANGED <<supVars, runVars, mcpVars, handled, dims>>

InitPair ==
  /\ opt \in { [url |-> "http://127.0.0.1:8080", size |-> <<"8", "x", "6">>,
                js |-> None, is_recording |-> FALSE, recording_length |-> None,
                is_piped |-> p, debug |-> FALSE, wait |-> 0] : p \in BOOLEAN }
  /\ extLive \in BOOLEAN
  /\ Fresh
  /\ McpFresh
  /\ handled = <<>>
  /\ dims = [width |-> 0, height |-> 0]
  /\ peer = [pc |-> "Idle", bound |-> 0]
  /\ file = [exists |-> FALSE, data |-> <<>>]

NextPair ==
  \/ PerformStart
  \/ PerformPoll
  \/ PerformStartReturned
  \/ ParseUrl
  \/ ParseViewport
  \/ setup_webdriver
  \/ navigate_and_wait
  \/ take_screenshot
  \/ quit
  \/ peer_start
  \/ peer_setup_webdriver
  \/ peer_request

SpecPair == InitPair /\ [][NextPair]_vars

\* ------------------------------------------------- the action handlers
\* register_actions: the parameters each action is registered with
action_parameters(name) ==
  CASE name = "capture_screenshot" ->
         { [name |-> "url", required |-> TRUE],
           [name |-> "wait", required |-> FALSE],
           [name |-> "size", required |-> FALSE],
           [name |-> "js", required |-> FALSE] }
    [] name = "record_interaction" ->
         { [name |-> "url", required |-> TRUE],
           [name |-> "duration", required |-> FALSE],
           [name |-> "wait", required |-> FALSE],
           [name |-> "size", required |-> FALSE],
           [name |-> "js", required |-> FALSE] }

required_parameters(name) ==
  { q.name : q \in { r \in action_parameters(name) : r.required } }

\* the values the handlers use for a parameter that is absent
HandlerDefaultUrl == "http://127.0.0.1:8080"
HandlerDefaultWait == 10
HandlerDefaultDuration == 10
HandlerDefaultSize == <<"1", "2", "8", "0", "x", "7", "2", "0">>

\* the JSON object a handler is called with: every parameter present or not
ParamSamples ==
  { [url |-> u, wait |-> w, duration |-> None, size |-> None, js |-> None] :
      u \in {None, Some("http://example.com/")}, w \in {None, Some(0)} }

\* capture_screenshot_handler / record_interaction_handler: the
\* CaptureOptions built from the parameters; the output goes to a temporary
\* file
handler_options(name, params) ==
  [url |-> unwrap_or(params.url, HandlerDefaultUrl),
   wait |-> unwrap_or(params.wait, HandlerDefaultWait),
   size |-> unwrap_or(params.size, HandlerDefaultSize),
   js |-> params.js,
   debug |-> FALSE,
   is_piped |-> FALSE,
   is_recording |-> name = "record_interaction",
   recording_length |->
     IF name = "record_interaction"
     THEN Some(unwrap_or(params.duration, HandlerDefaultDuration))
     ELSE None]

\* one run of a registered handler.  Runtime::new()? or NamedTempFile::new()?
\* may fail before anything is captured; otherwise perform_capture is called
\* with the options and its result, or the failure to read the file back, is
\* the handler's.
handle_action ==
  /\ mserver.server # None
  /\ Len(handled) < MaxCalls
  /\ \E name \in mserver.server[1], params \in ParamSamples,
        outcome \in {"setup_failed", "capture_failed", "ok"} :
       handled' = Append(handled,
                         [action |-> name,
                          params |-> params,
                          executed |-> outcome # "setup_failed",
                          options |-> IF outcome = "setup_failed" THEN None
                                      ELSE Some(handler_options(name, params)),
                          status |-> IF outcome = "ok" THEN "Ok" ELSE "Err"])
  /\ UNCHANGED <<supVars, runVars, mcpVars, peer, dims>>

InitActions == InitMcp

NextActions == mcp_start \/ handle_action

SpecActions == InitActions /\ [][NextActions]_vars

\* ------------------------------------------ the dimensions the encoder uses
\* `as u16` applied to a u32
as_u16(n) == n % 2^16

\* widths and heights of a first frame (u32 each); one side is kept small so
\* that the pixel count stays a small number
SmallSides == {1, 2, 6, 8, 255, 256, 720}
LargeSides == {1280, 65535, 65536, 65537, 70000}
DimSamples ==
  { [width |-> w, height |-> h] :
      w \in SmallSides \cup LargeSides, h \in SmallSides }
  \cup { [width |-> w, height |-> h] :
           w \in SmallSides, h \in SmallSides \cup LargeSides }

\* write_gif_to_buffer: the logical screen handed to gif::Encoder::new and the
\* size handed to gif::Frame::from_rgb, both (width as u16, height as u16)
gif_dimensions(d) == [width |-> as_u16(d.width), height |-> as_u16(d.height)]

\* write_gif_to_buffer: the length of frame_data, three bytes for each pixel
\* of the image
frame_data_len(d) == d.width * d.height * 3

\* write_gif_to_buffer seen through the sizes alone, for one frame.  What
\* Frame::from_rgb does with a buffer whose length is not width*height*3 of
\* the size it is given is the gif crate's business: it may stop the run.
encode_dimensions ==
  /\ UNCHANGED <<mcpVars, handled, peer, dims>>
  /\ pc = "Idle"
  /\ encodeCalls' = encodeCalls + 1
  /\ LET g == gif_dimensions(dims) IN
       /\ stdout' = <<[kind |-> "screen", width |-> g.width, height |-> g.height],
                      [kind |-> "frame", width |-> g.width, height |-> g.height,
                       len |-> frame_data_len(dims)]>>
       /\ pc' \in IF g.width * g.height * 3 = frame_data_len(dims)
                  THEN {"Encoded"}
                  ELSE {"Encoded", "Panicked"}
  /\ UNCHANGED <<supVars, opt, result, viewport, session, quitCalls, ops, shots,
                 frames, tempfiles, loaded, file>>

InitDims ==
  /\ opt = [url |-> "http://127.0.0.1:8080", size |-> <<"8", "x", "6">>,
            js |-> None, is_recording |-> TRUE, recording_length |-> None,
            is_piped |-> TRUE, debug |-> FALSE, wait |-> 0]
  /\ extLive = FALSE
  /\ Fresh
  /\ McpFresh
  /\ handled = <<>>
  /\ peer = [pc |-> "Absent", bound |-> 0]
  /\ dims \in DimSamples
  /\ file = [exists |-> FALSE, data |-> <<>>]

NextDims == encode_dimensions

SpecDims == InitDims /\ [][NextDims]_vars

\* =================================================================== claims
untouched ==
  /\ stdout = <<>>
  /\ \/ file = [exists |-> FALSE, data |-> <<>>]
     \/ file = [exists |-> TRUE, data |-> <<Chunk("old", 0)>>]

\* C1: when perform_capture has returned (Ok or any error), every driver
\* process that start() spawned has been killed and waited for, and the
\* manager holds no process any more.
C1_DriverReapedOnReturn ==
  pc \in {"Done", "Failed"} =>
    /\ process = 0
    /\ \A i \in 1..Len(children) :
         /\ children[i] = "reaped"
         /\ \E k \in 1..Len(kills) : kills[k] = i

C1_Witness ==
  /\ pc = "Failed"
  /\ session = "open"
  /\ Len(children) = 1
  /\ children[1] = "reaped"

\* C2: when a session was opened and the run then failed, session.quit() has
\* been requested by the time perform_capture has returned.
C2_QuitAttemptedOnFailure ==
  (pc = "Failed" /\ session # "none") => quitCalls > 0

\* C3: a recording of D seconds never requests more than D*F screenshots; once
\* the capture loop is over exactly D*F were requested and the frame paths are
\* numbered 0..D*F-1 in order; the images handed to the encoder are the D*F
\* screenshots in capture order.
C3_ExactFrameCount ==
  LET n == recording_length * frames_per_second IN
  opt.is_recording =>
    /\ shots <= n
    /\ pc \in {"CreateGif", "Quit", "Done"} =>
         /\ shots = n
         /\ Len(frames) = n
         /\ \A i \in 1..n : frames[i] = i - 1 /\ tempfiles[i] = i
    /\ encodeCalls > 0 =>
         /\ Len(loaded) = n
         /\ \A i \in 1..n : loaded[i] = i

C3_Witness ==
  /\ opt.is_recording
  /\ opt.recording_length = Some(MaxRecordingLength)
  /\ pc = "Quit"
  /\ encodeCalls = 1
  /\ Len(loaded) = MaxRecordingLength * frames_per_second

\* C4: when the encoder has been called with no frames, perform_capture has
\* returned the EmptyFrameSequence error: it did not crash and wrote nothing.
C4_EmptySequenceIsError ==
  (encodeCalls > 0 /\ loaded = <<>>) =>
    /\ pc = "Failed"
    /\ result = "EmptyFrameSequence"

\* C5: when a recording run has failed in capture, decode, encoding or writing
\* (crash included), nothing was written to standard output and the
\* destination file is as it was before the run.
C5_NoPartialOutput ==
  (opt.is_recording /\ pc \in {"Failed", "Panicked"} /\ result # "QuitFailed")
    => untouched

\* C6: a start() entered while the port answers returns Ok at once, spawns
\* nothing and leaves the owned process handle as it was.
C6_StartIdempotentWhenLive ==
  [][(starts' = starts + 1 /\ is_running) =>
       /\ children' = children
       /\ process' = process
       /\ mpc' = "returned"
       /\ startResult' = "Ok"]_vars

C6_Witness ==
  /\ starts = 2
  /\ Len(children) = 1
  /\ children[1] = "listening"
  /\ process = 1
  /\ mpc = "returned"
  /\ startResult = "Ok"

\* C7: every kill+wait is done by Drop, on a process this manager spawned, at
\* most once per process; the external driver (target 0) is never killed.
C7_DropKillsOnlyOwnChild ==
  /\ kills # <<>> => mpc = "dropped"
  /\ \A k \in 1..Len(kills) :
       /\ kills[k] \in 1..Len(children)
       /\ \A j \in 1..Len(kills) : kills[j] = kills[k] => j = k
  /\ \A i \in 1..Len(children) :
       children[i] = "reaped" => \E k \in 1..Len(kills) : kills[k] = i

C7_Witness ==
  /\ mpc = "dropped"
  /\ Len(children) >= 1
  /\ kills = <<Len(children)>>

\* C8: a start() that spawned the child returns: Ok only after a probe that
\* succeeded, the timeout error only after a failed probe made later than 5 s;
\* every failed probe that keeps the loop going moves the clock on by at least
\* the poll interval, a failed probe after the limit ends the loop, and the
\* loop is always left.
C8_StartAlwaysReturns ==
  /\ []((mpc = "returned" /\ startResult = "Ok") => probeOk)
  /\ []((mpc = "returned" /\ startResult = "DriverStartTimeout") =>
          (~probeOk /\ elapsed > StartTimeoutMs))
  /\ [][(mpc = "polling" /\ mpc' = "polling") =>
          (elapsed <= StartTimeoutMs /\ elapsed' >= elapsed + PollIntervalMs)]_vars
  /\ ((mpc = "polling") ~> (mpc = "returned"))

C8_Witness ==
  /\ mpc = "returned"
  /\ startResult = "DriverStartTimeout"
  /\ children # <<>>

\* C9: when start() failed because the driver could not be spawned, the poll
\* loop was not entered, the manager owns no process, no child exists, and
\* perform_capture fails with that error without opening a session.
C9_SpawnFailureStopsRun ==
  startResult = "DriverNotFound" =>
    /\ mpc \in {"returned", "dropped"}
    /\ elapsed = 0
    /\ process = 0
    /\ children = <<>>
    /\ session = "none"
    /\ pc \in {"DriverStarting", "Failed"}
    /\ pc = "Failed" => result = "DriverNotFound"

C9_Witness ==
  /\ pc = "Failed"
  /\ result = "DriverNotFound"
  /\ mpc = "dropped"

\* the phase of the pipeline state machine a position of the code belongs to
PhaseOf(p) ==
  CASE p = "Idle" -> "Idle"
    [] p = "DriverStarting" -> "DriverStarting"
    [] p \in {"ParseUrl", "ParseViewport", "SetupWebdriver"} -> "SessionOpening"
    [] p = "Navigate" -> "Navigating"
    [] p = "ExecuteJavascript" -> "ScriptRunning"
    [] p \in {"Capture", "RecordLoop"} -> "Capturing"
    [] p = "CreateGif" -> "Encoding"
    [] p = "Quit" -> "Finalizing"
    [] p = "Done" -> "Done"
    [] p \in {"Failed", "Panicked"} -> "Failed"

PhaseStep(a, b) ==
  \/ a \notin {"Done", "Failed"} /\ b = "Failed"
  \/ a = "Idle" /\ b = "DriverStarting"
  \/ a = "DriverStarting" /\ b = "SessionOpening"
  \/ a = "SessionOpening" /\ b = "Navigating"
  \/ a = "Navigating" /\ b = "ScriptRunning" /\ opt.js # None
  \/ a = "Navigating" /\ b = "Capturing" /\ opt.js = None
  \/ a = "ScriptRunning" /\ b = "Capturing"
  \/ a = "Capturing" /\ b = "Encoding" /\ opt.is_recording
  \/ a = "Capturing" /\ b = "Finalizing" /\ ~opt.is_recording
  \/ a = "Encoding" /\ b = "Finalizing"
  \/ a = "Finalizing" /\ b = "Done"

\* C10: every step of a run stays in its phase or moves to the next phase of
\* Idle, DriverStarting, SessionOpening, Navigating, ScriptRunning (only with a
\* script), Capturing, Encoding (only when recording), Finalizing, Done, or to
\* Failed; nothing follows Done or Failed.
C10_PhaseOrder ==
  [][PhaseOf(pc') = PhaseOf(pc) \/ PhaseStep(PhaseOf(pc), PhaseOf(pc'))]_vars

C10_Witness ==
  /\ pc = "Done"
  /\ opt.is_recording
  /\ opt.js # None
  /\ encodeCalls = 1
  /\ quitCalls = 1

\* the error perform_capture reports when a request to the session fails
ErrorOf(o) ==
  CASE o \in {"new_session", "set_window_rect"} -> "SessionSetupFailed"
    [] o = "goto" -> "NavigationFailed"
    [] o = "execute" -> "ScriptExecutionFailed"
    [] o = "screenshot" -> "FrameCaptureFailed"
    [] o = "quit" -> "QuitFailed"

\* C11: a request to the session that failed is the last request made to it
\* (nothing is retried, nothing follows), the run has failed, and the error
\* it reports is the error of that request.
C11_FirstErrorIsFinal ==
  \A i \in 1..Len(ops) :
    ~ops[i].ok =>
      /\ i = Len(ops)
      /\ pc = "Failed"
      /\ result = ErrorOf(ops[i].op)

C11_Witness ==
  /\ pc = "Failed"
  /\ result = "NavigationFailed"
  /\ Len(ops) = 3
  /\ ops[3] = SessionOp("goto", FALSE)

\* C12: once the script evaluation has failed, the run has failed with the
\* script error and no screenshot has been or is requested, in still and in
\* recording mode.
C12_ScriptFailureStopsCapture ==
  (\E i \in 1..Len(ops) : ops[i].op = "execute" /\ ~ops[i].ok) =>
    /\ pc = "Failed"
    /\ result = "ScriptExecutionFailed"
    /\ shots = 0
    /\ \A j \in 1..Len(ops) : ops[j].op # "screenshot"

C12_Witness ==
  /\ pc = "Failed"
  /\ result = "ScriptExecutionFailed"
  /\ opt.is_recording
  /\ shots = 0

\* a non-empty run of decimal digits naming a positive value that the width
\* and height fields can hold
IsPositiveInteger(p) ==
  /\ p # <<>>
  /\ \A i \in 1..Len(p) : p[i] \in Digits
  /\ \E i \in 1..Len(p) : p[i] # "0"
  /\ FitsU32(StripZeros(p))

\* WIDTHxHEIGHT: exactly one separator, a positive integer on each side
IsWidthXHeight(s) ==
  \E k \in 1..Len(s) :
    /\ s[k] = "x"
    /\ \A j \in 1..Len(s) : s[j] = "x" => j = k
    /\ IsPositiveInteger(SubSeq(s, 1, k - 1))
    /\ IsPositiveInteger(SubSeq(s, k + 1, Len(s)))

\* C13: the parser accepts a string exactly when it is WIDTHxHEIGHT with two
\* positive integers, and then returns those two integers; a zero dimension
\* and a signed number are among the rejected strings.
C13_AcceptsExactlyPositivePairs ==
  pc = "Parsed" =>
    /\ (result = "Ok") <=> IsWidthXHeight(opt.size)
    /\ result = "Ok" =>
         \E k \in 1..Len(opt.size) :
           /\ opt.size[k] = "x"
           /\ viewport.width = StripZeros(SubSeq(opt.size, 1, k - 1))
           /\ viewport.height = StripZeros(SubSeq(opt.size, k + 1, Len(opt.size)))

\* where the encoded recording goes: standard output or the destination file
recording_sink == IF opt.is_piped THEN stdout ELSE file.data

\* C14: in the encoder's output every frame comes after the infinite-loop
\* flag, the k-th frame written is the k-th frame captured and carries delay
\* 10; when the encoder has succeeded there is exactly one frame per captured
\* frame.
C14_OneFramePerInputInOrder ==
  (opt.is_recording /\ encodeCalls > 0) =>
    /\ \A i \in 1..Len(recording_sink) :
         recording_sink[i].kind = "frame" =>
           /\ i >= 3
           /\ recording_sink[2].kind = "repeat_infinite"
           /\ recording_sink[i].n = tempfiles[i - 2]
           /\ recording_sink[i].delay = 10
    /\ (pc = "Quit" \/ result \in {"Ok", "QuitFailed"}) =>
         /\ Len(recording_sink) = Len(frames) + 2
         /\ \A k \in 1..Len(frames) : recording_sink[k + 2].kind = "frame"

C14_Witness ==
  /\ opt.is_recording
  /\ result = "Ok"
  /\ Len(frames) = 20
  /\ Len(recording_sink) = 22

C17_DefaultLengthAndStillMode ==
  /\ (opt.is_recording /\ (pc = "CreateGif" \/ encodeCalls > 0)) =>
       IF opt.recording_length = <<>>
       THEN Len(frames) = 100 /\ shots = 100
       ELSE Len(frames) = 10 * opt.recording_length[1]
            /\ shots = 10 * opt.recording_length[1]
  /\ opt.is_recording => Len(frames) <= (IF opt.recording_length = <<>> THEN 100
                                         ELSE 10 * opt.recording_length[1])
  /\ ~opt.is_recording =>
       /\ opt.recording_length = <<>>
       /\ pc \notin {"RecordLoop", "CreateGif"}
       /\ frames = <<>> /\ tempfiles = <<>> /\ loaded = <<>>
       /\ encodeCalls = 0

C17_Witness ==
  /\ opt.is_recording
  /\ opt.recording_length = <<>>
  /\ result = "Ok"
  /\ Len(frames) = 100

\* C18: with the server started, the names a client has obtained from
\* get_available_actions are exactly the names registered on the server,
\* capture_screenshot and record_interaction, each once.
C18_ListedActionsAreRegistered ==
  (mserver.server # <<>> /\ listed # <<>>) =>
    /\ {listed[1][i] : i \in 1..Len(listed[1])} = mserver.server[1]
    /\ mserver.server[1] = {"capture_screenshot", "record_interaction"}
    /\ Len(listed[1]) = 2

C18_Witness ==
  /\ mserver.server # <<>>
  /\ listed # <<>>
  /\ Len(tasks) = 1

\* C19: every invocation of an action that is not among the available
\* actions has returned an error.
C19_UnknownActionIsError ==
  \A i \in 1..Len(calls) :
    calls[i].action \notin {"capture_screenshot", "record_interaction"} =>
      calls[i].status = "Err"

\* C20: every invocation whose response took longer than the timeout the
\* client was configured with has returned an error.
C20_SlowResponseIsError ==
  \A i \in 1..Len(calls) :
    calls[i].took > calls[i].timeout => calls[i].status = "Err"

\* C21: start() and stop() return Ok; once stop() has returned the server
\* holds neither a server instance nor a shutdown sender and no serve task is
\* left waiting, whether or not a start() came before and however often
\* stop() is repeated; and every serve task whose channel was signalled
\* terminates.
C21_StartStopLifecycle ==
  /\ [](mserver.last # "none" => mserver.returned = "Ok")
  /\ [](mserver.last = "stop" =>
          /\ mserver.server = <<>>
          /\ mserver.shutdown_tx = 0
          /\ \A i \in 1..Len(tasks) : tasks[i] # "serving")
  /\ \A i \in 1..MaxServerStarts :
       (Len(tasks) >= i /\ tasks[i] = "signalled")
         ~> (Len(tasks) >= i /\ tasks[i] = "stopped")

C21_Witness ==
  /\ mserver.last = "stop"
  /\ mserver.returned = "Ok"
  /\ Len(tasks) = 1
  /\ tasks[1] = "stopped"

\* where the CLI in MCP client mode writes: standard output or the file
mcp_sink == IF opt.is_piped THEN stdout ELSE file.data

frames_requested ==
  IF opt.recording_length = <<>> THEN 100 ELSE 10 * opt.recording_length[1]

\* C23: a still capture requests at most one frame, exactly one once it is
\* through, and never invokes the encoder; a recording invokes the encoder at
\* most once, only when every frame has been captured, and no frame is
\* captured afterwards; quit is requested only when the output is complete.
C23_EncoderAndQuitOrder ==
  /\ [](~opt.is_recording =>
          /\ encodeCalls = 0
          /\ shots <= 1
          /\ quitCalls > 0 =>
               /\ shots = 1
               /\ IF opt.is_piped THEN Len(stdout) = 1 /\ stdout[1].kind = "png"
                  ELSE Len(file.data) = 1 /\ file.data[1].kind = "png")
  /\ [](opt.is_recording =>
          /\ encodeCalls <= 1
          /\ encodeCalls = 1 =>
               shots = frames_requested /\ Len(frames) = frames_requested
          /\ quitCalls > 0 =>
               /\ encodeCalls = 1
               /\ Len(recording_sink) = frames_requested + 2)
  /\ [][encodeCalls > 0 => shots' = shots]_vars
  /\ [][quitCalls > 0 => stdout' = stdout /\ file' = file]_vars

C23_Witness ==
  /\ opt.is_recording
  /\ quitCalls = 1
  /\ encodeCalls = 1
  /\ shots = 20

\* C24: in a recording every captured frame but the latest has been decoded,
\* so a decode failure is met with exactly one frame more captured than
\* decoded.
C24_DecodeBeforeNextCapture ==
  opt.is_recording =>
    /\ Len(loaded) >= shots - 1
    /\ result = "FrameDecodeFailed" => shots = Len(loaded) + 1

\* the total of the sleeps logged from position i up to the next request
RECURSIVE pause_from(_, _)
pause_from(log, i) ==
  IF i > Len(log) \/ log[i].op # "sleep" THEN 0
  ELSE log[i].arg[1] + pause_from(log, i + 1)

\* C25: once navigation has returned, the sleeps that follow it, up to the
\* next request to the session, add up to the settle duration (1000 ms per
\* configured second, 0 included) in the piped, the debug and the countdown
\* mode; no script or capture request precedes them.
C25_SettlePauseIsExact ==
  /\ \A i \in 1..Len(ops) :
       (ops[i].op = "goto" /\ ops[i].ok) =>
          pause_from(ops, i + 1) = 1000 * opt.wait
  /\ \A j \in 1..Len(ops) :
       ops[j].op \in {"execute", "screenshot"} =>
          \E i \in 1..(j - 1) : ops[i].op = "goto" /\ ops[i].ok

C25_Witness ==
  /\ ~opt.is_piped
  /\ ~opt.debug
  /\ opt.wait = 2
  /\ shots = 1
  /\ \E i \in 1..Len(ops) : ops[i].op = "goto" /\ ops[i].ok

\* C26: in a recording every capture whose frame was stored is followed by
\* one sleep of 100 ms and then by the next request, so that there are as
\* many such sleeps as frames, the last frame included.
C26_OnePausePerFrame ==
  opt.is_recording =>
    /\ \A i \in 1..Len(ops) :
         (ops[i].op = "screenshot" /\ i < Len(ops)) =>
            /\ ops[i + 1].op = "sleep"
            /\ ops[i + 1].arg = <<100>>
            /\ i + 2 <= Len(ops) => ops[i + 2].op # "sleep"
    /\ Cardinality({i \in 2..Len(ops) :
                      ops[i].op = "sleep" /\ ops[i - 1].op = "screenshot"})
         = Len(frames)

C26_Witness ==
  /\ opt.is_recording
  /\ Len(frames) = 20
  /\ result = "Ok"

\* C27: a script is evaluated at most once, and not at all when none was
\* given; its evaluation follows navigation and its settle pause, and a
\* successful one is followed by a sleep of 500 ms before any capture.
C27_ScriptOnceWithGrace ==
  /\ Cardinality({i \in 1..Len(ops) : ops[i].op = "execute"}) <= 1
  /\ opt.js = <<>> => \A i \in 1..Len(ops) : ops[i].op # "execute"
  /\ (opt.js # <<>> /\ pc \in {"Capture", "RecordLoop", "CreateGif", "Quit", "Done"}) =>
       \E i \in 1..Len(ops) : ops[i].op = "execute" /\ ops[i].ok
  /\ \A i \in 1..Len(ops) :
       ops[i].op = "execute" =>
         /\ \E g \in 1..(i - 1) :
              /\ ops[g].op = "goto" /\ ops[g].ok
              /\ \A k \in (g + 1)..(i - 1) : ops[k].op = "sleep"
         /\ \A j \in 1..i : ops[j].op # "screenshot"
         /\ ops[i].ok =>
              /\ Len(ops) > i
              /\ ops[i + 1].op = "sleep"
              /\ ops[i + 1].arg = <<500>>

C27_Witness ==
  /\ opt.js # <<>>
  /\ opt.is_recording
  /\ shots = 1
  /\ \E i \in 1..Len(ops) : ops[i].op = "execute" /\ ops[i].ok

\* C28: a created session is the first request of the run and is followed at
\* once by one resize to the requested width and height; navigation comes
\* after the resize and only when the resize succeeded.
C28_ResizeOnceBeforeNavigation ==
  /\ \A i \in 1..Len(ops) :
       (ops[i].op = "new_session" /\ ops[i].ok) =>
          /\ i = 1
          /\ Len(ops) >= 2
          /\ ops[2].op = "set_window_rect"
          /\ opt.size = <<"8", "x", "6">> => ops[2].arg = << <<"8">>, <<"6">> >>
  /\ Cardinality({i \in 1..Len(ops) : ops[i].op = "set_window_rect"}) <= 1
  /\ \A j \in 1..Len(ops) :
       ops[j].op = "goto" =>
         /\ j = 3
         /\ ops[2].op = "set_window_rect"
         /\ ops[2].ok

C28_Witness ==
  /\ Len(ops) >= 3
  /\ ops[2].op = "set_window_rect"
  /\ ops[2].ok
  /\ ops[3].op = "goto"

\* the frame sequences that differ from imgs in alpha values only
alpha_variants(imgs) ==
  { [k \in 1..Len(imgs) |->
       [q \in 1..Len(imgs[k]) |->
          <<imgs[k][q][1], imgs[k][q][2], imgs[k][q][3], alphas[k][q]>>]] :
      alphas \in [1..Len(imgs) -> [1..Len(imgs[1]) -> ChannelSamples]] }

\* C29: the data of every encoded frame is the red, green and blue value of
\* each pixel of the input frame, in pixel order, and nothing else; encoding
\* any frame sequence that differs only in alpha values gives the same
\* output.
C29_AlphaDoesNotInfluenceOutput ==
  pc = "Encoded" =>
    /\ Len(stdout) = Len(loaded) + 2
    /\ \A k \in 1..Len(loaded) :
         /\ stdout[k + 2].kind = "frame"
         /\ Len(stdout[k + 2].n) = 3 * Len(loaded[k])
         /\ \A q \in 1..Len(loaded[k]) :
              /\ stdout[k + 2].n[3 * q - 2] = loaded[k][q][1]
              /\ stdout[k + 2].n[3 * q - 1] = loaded[k][q][2]
              /\ stdout[k + 2].n[3 * q] = loaded[k][q][3]
    /\ \A alt \in alpha_variants(loaded) : encode_rgba(alt).written = stdout

C29_Witness ==
  /\ pc = "Encoded"
  /\ Len(loaded) = 1
  /\ Len(loaded[1]) = 2
  /\ loaded[1][1][4] = 0
  /\ loaded[1][2][4] = 255
  /\ loaded[1][1][1] = 255

\* C30: a run creates at most one session; every other request is made to
\* that session, after its creation has returned successfully and before a
\* quit has succeeded; the requests form one sequence in which each but the
\* last has returned successfully, so that none is made while another is
\* unanswered or failed.
C30_OneSessionSequentialRequests ==
  /\ Cardinality({i \in 1..Len(ops) : ops[i].op = "new_session"}) <= 1
  /\ \A i \in 1..Len(ops) :
       ops[i].op \in {"set_window_rect", "goto", "execute", "screenshot", "quit"} =>
         /\ i > 1
         /\ ops[1].op = "new_session" /\ ops[1].ok
  /\ \A j \in 1..(Len(ops) - 1) : ops[j].ok /\ ops[j].op # "quit"
  /\ session = "open" <=>
       /\ Len(ops) >= 1 /\ ops[1].op = "new_session" /\ ops[1].ok
       /\ \A j \in 1..Len(ops) : ~(ops[j].op = "quit" /\ ops[j].ok)

C30_Witness ==
  /\ result = "Ok"
  /\ session = "closed"
  /\ opt.is_recording
  /\ shots = 10
  /\ ops[Len(ops)].op = "quit"

C33_ValidationBeforeSideEffects ==
  result \in {"UrlParseError", "MalformedViewportSpec"} =>
    /\ children = <<>>
    /\ session = "none"
    /\ ops = <<>>

\* C34: in still mode a run that reports an error has written nothing to its
\* destination: standard output and the output file are as the run found them.
C34_ErrorMeansNothingWritten ==
  (~opt.is_recording /\ pc = "Failed") => untouched

\* the log with every run of consecutive sleeps replaced by one sleep of
\* their total, and by nothing when the total is zero
merge_sleeps(log) ==
  LET first(i) == i = 1 \/ log[i - 1].op # "sleep"
      merged == [i \in 1..Len(log) |->
                   IF log[i].op # "sleep" THEN log[i]
                   ELSE IF first(i) THEN Sleep(pause_from(log, i))
                   ELSE Sleep(0)]
      kept(e) == e.op # "sleep" \/ e.arg[1] > 0
  IN SelectSeq(merged, kept)

\* the turns of the recording loop: n times screenshot, sleep(frame_delay)
FrameSteps(n) ==
  [i \in 1..(2 * n) |->
     IF i % 2 = 1 THEN SessionOp("screenshot", TRUE) ELSE Sleep(frame_delay)]

\* the requests and suspensions of a run of this request in which nothing
\* fails, read off perform_capture without the branches on is_piped and debug
\* (the pause after navigation written as the single sleep(wait_time))
request_ops ==
  <<SessionOp("new_session", TRUE),
    SessionOpArg("set_window_rect", TRUE, window_rect(viewport)),
    SessionOp("goto", TRUE),
    Sleep(opt.wait * 1000)>>
  \o (IF opt.js # None THEN script_steps(TRUE) ELSE <<>>)
  \o (IF opt.is_recording THEN FrameSteps(total_frames(recording_length))
      ELSE <<SessionOp("screenshot", TRUE)>>)
  \o <<SessionOp("quit", TRUE)>>

\* the bytes a run of this request delivers when nothing fails
request_output ==
  IF opt.is_recording THEN write_gif_to_buffer(loaded, 0).written
  ELSE <<Chunk("png", 1)>>

\* log a follows log b step by step as far as it goes; only its last step may
\* have failed
follows(a, b) ==
  /\ Len(a) <= Len(b)
  /\ \A i \in 1..Len(a) :
       /\ a[i].op = b[i].op
       /\ a[i].arg = b[i].arg
       /\ a[i].ok \/ i = Len(a)

C36_DimensionsPreserved ==
  encodeCalls > 0 =>
    \A i \in 1..Len(stdout) :
      /\ stdout[i].width = dims.width
      /\ stdout[i].height = dims.height
      /\ stdout[i].kind = "frame" =>
           stdout[i].len = stdout[i].width * stdout[i].height * 3

\* the serve tasks that have not been told to stop
serving == {i \in 1..Len(tasks) : tasks[i] = "serving"}

\* C37: however often start() is called, at most one serve task is left
\* serving, the one whose shutdown sender the server holds; the task of an
\* earlier start() is woken by the loss of its sender and terminates; and
\* once the MCPServer is dropped every task terminates.
C37_OneServeTask ==
  /\ [](Cardinality(serving) <= 1)
  /\ [](\A i \in serving : mserver.shutdown_tx = i /\ ~mserver.dropped)
  /\ (Len(tasks) >= 2) ~> (\A i \in 1..(Len(tasks) - 1) : tasks[i] = "stopped")
  /\ mserver.dropped ~> (\A i \in 1..Len(tasks) : tasks[i] = "stopped")

C37_Witness ==
  /\ Len(tasks) = 2
  /\ mserver.last = "start"
  /\ mserver.dropped
  /\ tasks = <<"stopped", "stopped">>

\* C38: a handler called without a parameter that the action's registration
\* declares required (url) returns an error and captures nothing.
C38_MissingRequiredIsRejected ==
  \A i \in 1..Len(handled) :
    (\E q \in required_parameters(handled[i].action) :
        handled[i].params[q] = None) =>
      /\ handled[i].status = "Err"
      /\ ~handled[i].executed

\* C32: while the session of the second run is in use, the driver process it
\* was created on is running: the run that spawned the driver has not killed
\* it.
C32_DriverOutlivesOtherSession ==
  peer.pc = "InUse" => driver_alive(peer.bound)
====
